---- MODULE Spec2Model ----
(***************************************************************************)
(* Model of the command tree and dispatch driver of src/command.go         *)
(* (package cli): Command.Register / RegisterFunc / RegisterTree, the      *)
(* router (Route / SubRoute / findChild), Path / Root, Suggestions and     *)
(* RunWithWriter.                                                          *)
(*                                                                         *)
(* Strings are sequences of one-character strings, so that strings.Join    *)
(* and strings.HasPrefix are computed and not assumed.  A *Command is a    *)
(* node id; Nil is the nil pointer.                                        *)
(***************************************************************************)
EXTENDS Integers, Sequences, FiniteSets, TLC

\* ------------------------------------------------------------------ bounds

\* Named commands the program constructs, by composite literal or in
\* RegisterFunc.
NumCmds == 3
\* Longest argument list handed to Run.
MaxArgs == 2
\* Most trees, sub-trees included, in a forest handed to RegisterTree.
MaxForest == 2
\* Goroutines that call Usage at the same time.
NumCallers == 2
\* Commands of the program with the larger tree.
NumWide == 6

Nil == 0
Cmds == 1..NumCmds
\* One more command, without a name (&Command{}), which the program only
\* ever hands to Register and RegisterFunc as the child.
Anon == NumCmds + 1
Objs == Cmds \cup {Anon}
Callers == 1..NumCallers

\* ----------------------------------------------------------------- strings

EmptyStr == <<>>
strA == <<"a">>
strB == <<"b">>
Space == <<" ">>
\* dashOne is the flag prefix tested by RunWithWriter (command.go:243).
dashOne == <<"-">>

\* strings.HasPrefix
HasPrefix(s, prefix) ==
    /\ Len(s) >= Len(prefix)
    /\ SubSeq(s, 1, Len(prefix)) = prefix

\* strings.Join
RECURSIVE Join(_, _)
Join(elems, sep) ==
    IF Len(elems) = 0 THEN EmptyStr
    ELSE IF Len(elems) = 1 THEN elems[1]
    ELSE elems[1] \o sep \o Join(Tail(elems), sep)

\* Sequences over S of length at most n.
SeqUpTo(S, n) == UNION {[1..k -> S] : k \in 0..n}

\* The argument tokens Run is called with.
Tokens == {strA, strB, <<"-", "a">>}
\* The HTTP method lists RunWithWriter is called with.
MethodLists == {<<>>, <<"GET">>, <<"POST">>}

\* ------------------------------------------------------------------- state

VARIABLES
    Name,         \* Command.Name
    Desc,         \* Command.Desc
    Text,         \* Command.Text
    Fn,           \* Command.Fn # nil
    Argv,         \* Command.Argv: "nil", or the kind of object the factory makes
    CanSubRoute,  \* Command.CanSubRoute
    HTTPMethods,  \* Command.HTTPMethods
    parent,       \* Command.parent
    children,     \* Command.children: the elements of the slice
    spare,        \* the rest of the array of Command.children, past its length
    usage,        \* Command.usage, the cached usage text (under Command.locker)
    callers,      \* the Usage call each goroutine is in, with its locals
    last          \* the call in progress or just returned, as its caller sees it

vars == <<Name, Desc, Text, Fn, Argv, CanSubRoute, HTTPMethods, parent, children,
          spare, usage, callers, last>>

\* The commands of the program under analysis.  They differ in name (two
\* share one), handler, argument factory, sub-routing and allowed methods.
LitName(n) == IF n = Anon THEN EmptyStr ELSE IF n <= 2 THEN strA ELSE strB
LitDesc(n) == IF n = 2 THEN <<"d">> ELSE EmptyStr
LitText(n) == IF n = 2 THEN <<"t">> ELSE EmptyStr
LitFn(n) == n \in Cmds /\ n # 3
LitArgv(n) == IF n \in {1, Anon} THEN "nil" ELSE IF n = 2 THEN "validator" ELSE "plain"
LitCanSubRoute(n) == n \in Cmds /\ n % 2 = 0
LitHTTPMethods(n) == IF n = 2 THEN <<"GET">> ELSE <<>>

NoCall == [op |-> "none"]
\* A goroutine that is not in a call of Usage.
NoUsage == [pc |-> "idle"]

Init ==
    /\ Name = [n \in Objs |-> LitName(n)]
    /\ Desc = [n \in Objs |-> LitDesc(n)]
    /\ Text = [n \in Objs |-> LitText(n)]
    /\ Fn = [n \in Objs |-> LitFn(n)]
    /\ Argv = [n \in Objs |-> LitArgv(n)]
    /\ CanSubRoute = [n \in Objs |-> LitCanSubRoute(n)]
    /\ HTTPMethods = [n \in Objs |-> LitHTTPMethods(n)]
    /\ parent = [n \in Objs |-> Nil]
    /\ children = [n \in Objs |-> <<>>]
    /\ spare = [n \in Objs |-> <<>>]
    /\ usage = [n \in Objs |-> EmptyStr]
    /\ callers = [c \in Callers |-> NoUsage]
    /\ last = NoCall

\* The part of the heap that registration reads and writes.
Heap == [Name |-> Name, parent |-> parent, children |-> children, spare |-> spare]

\* ------------------------------------------------------------ registration

\* Command.findChild: the first child of cmd with that name, or nil.
findChild(h, cmd, name) ==
    LET found == {i \in 1..Len(h.children[cmd]) : h.Name[h.children[cmd][i]] = name}
    IN IF found = {} THEN Nil
       ELSE h.children[cmd][CHOOSE i \in found : \A j \in found : i <= j]

\* cmd.children = append(cmd.children, child); child.parent = cmd.  append
\* puts child in the first spare element of the array when there is one;
\* else it copies the elements to a new array of twice the length (of one
\* element for an empty slice), whose spare elements are nil.
appendChild(h, cmd, child) ==
    LET len == Len(h.children[cmd])
        newcap == IF len = 0 THEN 1 ELSE 2 * len
    IN [h EXCEPT !.children[cmd] = Append(@, child),
                 !.spare[cmd] = IF Len(@) > 0 THEN Tail(@)
                                ELSE [i \in 1..(newcap - len - 1) |-> Nil],
                 !.parent[child] = cmd]

\* Register without the test of child.parent.
RegisterReparent(h, cmd, child) ==
    IF child = Nil
    THEN [h |-> h, panic |-> "nil command", ret |-> Nil]
    ELSE IF h.Name[child] = EmptyStr
    THEN [h |-> h, panic |-> "empty command", ret |-> Nil]
    ELSE IF findChild(h, cmd, h.Name[child]) # Nil
    THEN [h |-> h, panic |-> "repeat register", ret |-> Nil]
    ELSE [h |-> appendChild(h, cmd, child), panic |-> "", ret |-> child]

\* Register without the test for a child of the same name.
RegisterRepeat(h, cmd, child) ==
    IF child = Nil
    THEN [h |-> h, panic |-> "nil command", ret |-> Nil]
    ELSE IF h.Name[child] = EmptyStr
    THEN [h |-> h, panic |-> "empty command", ret |-> Nil]
    ELSE IF h.parent[child] # Nil
    THEN [h |-> h, panic |-> "has been child", ret |-> Nil]
    ELSE [h |-> appendChild(h, cmd, child), panic |-> "", ret |-> child]

\* Register that looks for a child of the same name after it appended.
RegisterAppendFirst(h, cmd, child) ==
    IF child = Nil
    THEN [h |-> h, panic |-> "nil command", ret |-> Nil]
    ELSE IF h.Name[child] = EmptyStr
    THEN [h |-> h, panic |-> "empty command", ret |-> Nil]
    ELSE IF h.parent[child] # Nil
    THEN [h |-> h, panic |-> "has been child", ret |-> Nil]
    ELSE LET g == appendChild(h, cmd, child)
         IN IF findChild(h, cmd, h.Name[child]) # Nil
            THEN [h |-> g, panic |-> "repeat register", ret |-> Nil]
            ELSE [h |-> g, panic |-> "", ret |-> child]

\* Command.Register.  panic is the message class of the Panicf reached, or ""
\* when the registration is accepted.
Register(h, cmd, child) ==
    IF child = Nil
    THEN [h |-> h, panic |-> "nil command", ret |-> Nil]
    ELSE IF h.Name[child] = EmptyStr
    THEN [h |-> h, panic |-> "empty command", ret |-> Nil]
    ELSE IF h.parent[child] # Nil
    THEN [h |-> h, panic |-> "has been child", ret |-> Nil]
    ELSE IF findChild(h, cmd, h.Name[child]) # Nil
    THEN [h |-> h, panic |-> "repeat register", ret |-> Nil]
    ELSE [h |-> appendChild(h, cmd, child), panic |-> "", ret |-> child]

\* Command.RegisterTree: registers the trees of the forest in order, each
\* followed by its own sub-forest; a panic ends the whole call where it is.
RECURSIVE RegisterTree(_, _, _)
RegisterTree(h, cmd, forest) ==
    IF forest = <<>> THEN [h |-> h, panic |-> ""]
    ELSE LET tree == Head(forest)
             r == Register(h, cmd, tree.command)
         IN IF r.panic # "" THEN [h |-> r.h, panic |-> r.panic]
            ELSE LET s == IF Len(tree.forest) > 0
                          THEN RegisterTree(r.h, tree.command, tree.forest)
                          ELSE [h |-> r.h, panic |-> ""]
                 IN IF s.panic # "" THEN s
                    ELSE RegisterTree(s.h, cmd, Tail(forest))

\* ------------------------------------------------------------------ router

\* SubRoute that goes on with the next token when no child has the name.
RECURSIVE SubRouteFromSkip(_, _, _, _)
SubRouteFromSkip(h, cur, router, i) ==
    IF i >= Len(router) THEN <<cur, Len(router)>>
    ELSE LET child == findChild(h, cur, router[i + 1])
         IN IF child = Nil THEN SubRouteFromSkip(h, cur, router, i + 1)
            ELSE SubRouteFromSkip(h, child, router, i + 1)

\* Command.SubRoute: <<node reached, number of tokens consumed>>.
RECURSIVE SubRouteFrom(_, _, _, _)
SubRouteFrom(h, cur, router, i) ==
    IF i >= Len(router) THEN <<cur, Len(router)>>
    ELSE LET child == findChild(h, cur, router[i + 1])
         IN IF child = Nil THEN <<cur, i>>
            ELSE SubRouteFrom(h, child, router, i + 1)

SubRoute(h, cmd, router) == SubRouteFrom(h, cmd, router, 0)

\* Route that accepts a partial match at a sub-routable command.
RouteSubRoutable(h, cmd, router) ==
    LET sr == SubRoute(h, cmd, router)
    IN IF sr[2] # Len(router) /\ ~CanSubRoute[sr[1]] THEN Nil ELSE sr[1]

\* Command.Route: the node reached if every token was consumed, else nil.
Route(h, cmd, router) ==
    LET sr == SubRoute(h, cmd, router)
    IN IF sr[2] # Len(router) THEN Nil ELSE sr[1]

\* Command.Root.  The loop follows parent links until a nil parent; on a
\* cycle of parent links it never ends, which is reported as Nil (Root itself
\* never returns nil).  A walk of more links than there are commands is on a
\* cycle.
RECURSIVE RootWalk(_, _, _)
RootWalk(h, ancestor, fuel) ==
    IF h.parent[ancestor] = Nil THEN ancestor
    ELSE IF fuel = 0 THEN Nil
    ELSE RootWalk(h, h.parent[ancestor], fuel - 1)

Root(h, cmd) == RootWalk(h, cmd, Cardinality(DOMAIN h.parent))

\* Command.Path, for a command whose parent chain ends (Root(h, cmd) # Nil).
RECURSIVE PathWalk(_, _, _)
PathWalk(h, cur, path) ==
    IF h.parent[cur] = Nil THEN path
    ELSE PathWalk(h, h.parent[cur],
                  IF h.Name[cur] # EmptyStr
                  THEN IF path = EmptyStr THEN h.Name[cur]
                       ELSE h.Name[cur] \o Space \o path
                  ELSE path)

\* Path that puts the name of the command without parent first.
RECURSIVE PathWalkWithRoot(_, _, _)
PathWalkWithRoot(h, cur, path) ==
    LET next == IF h.Name[cur] # EmptyStr
                THEN IF path = EmptyStr THEN h.Name[cur]
                     ELSE h.Name[cur] \o Space \o path
                ELSE path
    IN IF h.parent[cur] = Nil THEN next ELSE PathWalkWithRoot(h, h.parent[cur], next)

PathWithRoot(h, cmd) == PathWalkWithRoot(h, cmd, EmptyStr)

\* Path that joins the names without the space.
RECURSIVE PathWalkNoSpace(_, _, _)
PathWalkNoSpace(h, cur, path) ==
    IF h.parent[cur] = Nil THEN path
    ELSE PathWalkNoSpace(h, h.parent[cur], h.Name[cur] \o path)

PathNoSpace(h, cmd) == PathWalkNoSpace(h, cmd, EmptyStr)

Path(h, cmd) == PathWalk(h, cmd, EmptyStr)

\* Command.nochild
nochild(h, cmd) == Len(h.children[cmd]) = 0

\* ------------------------------------------------------------- suggestions

Min3(a, b, c) == IF a <= b /\ a <= c THEN a ELSE IF b <= c THEN b ELSE c

\* One row of the edit-distance table: cur holds the columns done so far of
\* the row of character c, prev is the row before it.
RECURSIVE editRow(_, _, _, _)
editRow(prev, c, t, cur) ==
    IF Len(cur) = Len(t) + 1 THEN cur
    ELSE LET j == Len(cur)
         IN editRow(prev, c, t,
                    Append(cur, Min3(prev[j + 1] + 1, cur[j] + 1,
                                     prev[j] + (IF c = t[j] THEN 0 ELSE 1))))

RECURSIVE editRows(_, _, _, _)
editRows(s, t, prev, i) ==
    IF i > Len(s) THEN prev
    ELSE editRows(s, t, editRow(prev, s[i], t, <<i>>), i + 1)

\* editDistance: insertions, deletions and substitutions of characters.
editDistance(s, t) ==
    editRows(s, t, [j \in 1..(Len(t) + 1) |-> j - 1], 1)[Len(t) + 1]

\* match: the distance, and whether it is under the cutoff for the two lengths.
match(s, t) ==
    LET d == editDistance(s, t)
    IN [d |-> d, ok |-> 2 * d < Len(s) + Len(t)]

\* The heap after append(x.children, rest...) (command.go:465), whose value
\* is x.children \o rest.  When the spare elements of the array of x.children
\* hold rest, append writes rest there and the array is shared; else it makes
\* a new array and writes nothing that x refers to.
appendCmds(h, x, rest) ==
    IF Len(rest) = 0 \/ Len(rest) > Len(h.spare[x]) THEN h
    ELSE [h EXCEPT !.spare[x] = rest \o SubSeq(@, Len(rest) + 1, Len(@))]

\* The loop of Suggestions over cmds (command.go:458-467): the paths of the
\* children of the commands visited, in the order the loop appends them, and
\* the heap the loop leaves.
RECURSIVE collectTargets(_, _, _)
collectTargets(h, cmds, targets) ==
    IF Len(cmds) = 0 THEN [targets |-> targets, h |-> h]
    ELSE IF nochild(h, cmds[1]) THEN collectTargets(h, Tail(cmds), targets)
    ELSE LET ch == h.children[cmds[1]]
         IN collectTargets(appendCmds(h, cmds[1], Tail(cmds)), ch \o Tail(cmds),
                           targets \o [i \in 1..Len(ch) |-> Path(h, ch[i])])

\* The targets that match path, in target order, with their distances.
RECURSIVE matchTargets(_, _)
matchTargets(path, targets) ==
    IF Len(targets) = 0 THEN <<>>
    ELSE LET m == match(path, Head(targets))
         IN (IF m.ok THEN <<[s |-> Head(targets), d |-> m.d]>> ELSE <<>>)
            \o matchTargets(path, Tail(targets))

\* sort.Sort(editDistanceRankSlice(dists)): ascending by distance, equal
\* distances kept in their order.
RECURSIVE insertRank(_, _)
insertRank(sorted, e) ==
    IF Len(sorted) = 0 THEN <<e>>
    ELSE IF e.d < Head(sorted).d THEN <<e>> \o sorted
    ELSE <<Head(sorted)>> \o insertRank(Tail(sorted), e)

RECURSIVE sortDists(_, _)
sortDists(sorted, dists) ==
    IF Len(dists) = 0 THEN sorted
    ELSE sortDists(insertRank(sorted, Head(dists)), Tail(dists))

\* Command.Suggestions.  diverges: the call never returns (Root loops).
\* h is the heap the call leaves.
Suggestions(h, cmd, path) ==
    LET root == IF h.parent[cmd] # Nil THEN Root(h, cmd) ELSE cmd
    IN IF root = Nil THEN [diverges |-> TRUE, list |-> <<>>, h |-> h]
       ELSE LET loop == collectTargets(h, <<root>>, <<>>)
                dists == sortDists(<<>>, matchTargets(path, loop.targets))
            IN [diverges |-> FALSE,
                list |-> [i \in 1..Len(dists) |-> dists[i].s],
                h |-> loop.h]

\* ------------------------------------------------------------------- usage

NewLine == <<"LF">>

\* color.Color.Bold: the text inside the escape codes when colour is enabled,
\* the text alone when it is disabled.
Bold(clr, s) == IF clr THEN <<"ESC[1m">> \o s \o <<"ESC[0m">> ELSE s

\* usage(argv, clr): the flag-level usage text of an argument object.
usageOf(argv, clr) == <<"flags of ", argv>> \o NewLine

\* fmt's %-Ns: s, then spaces up to the width n.
PadRight(s, n) == s \o [i \in 1..(n - Len(s)) |-> " "]

\* The lines of ListChildren for the children from the i-th on.
RECURSIVE childLines(_, _, _, _, _)
childLines(cmd, i, length, prefix, indent) ==
    IF i > Len(children[cmd]) THEN EmptyStr
    ELSE LET child == children[cmd][i]
         IN prefix \o PadRight(Name[child], length) \o indent \o Desc[child] \o NewLine
            \o childLines(cmd, i + 1, length, prefix, indent)

\* Command.ListChildren
ListChildren(cmd, prefix, indent) ==
    IF nochild(Heap, cmd) THEN EmptyStr
    ELSE LET lens == {Len(Name[children[cmd][i]]) : i \in 1..Len(children[cmd])}
             length == IF \A l \in lens : l <= 0 THEN 0
                       ELSE CHOOSE l \in lens : \A k \in lens : k <= l
         IN childLines(cmd, 1, length, prefix, indent)

\* The text Usage builds when the cache is empty (command.go:344-360).
buildUsage(cmd, clr) ==
    (IF Desc[cmd] # EmptyStr THEN Desc[cmd] \o NewLine \o NewLine ELSE EmptyStr)
    \o (IF Text[cmd] # EmptyStr THEN Text[cmd] \o NewLine \o NewLine ELSE EmptyStr)
    \o (IF Argv[cmd] # "nil"
        THEN Bold(clr, <<"Usage">>) \o <<":">> \o NewLine \o usageOf(Argv[cmd], clr)
        ELSE EmptyStr)
    \o (IF Len(children[cmd]) > 0
        THEN (IF Argv[cmd] # "nil" THEN NewLine ELSE EmptyStr)
             \o Bold(clr, <<"Commands">>) \o <<":">> \o NewLine
             \o ListChildren(cmd, <<" ", " ">>, <<" ", " ", " ">>)
        ELSE EmptyStr)

\* The collaborators the construction calls: the argument factory and usage.
buildCalls(cmd) ==
    IF Argv[cmd] # "nil"
    THEN <<[call |-> "Argv", cmd |-> cmd], [call |-> "usage", cmd |-> cmd]>>
    ELSE <<>>

\* Usage that builds the text at every call.
UsageNoCache(cmd, clr) ==
    [ret |-> buildUsage(cmd, clr), cache |-> buildUsage(cmd, clr),
     calls |-> buildCalls(cmd)]

\* Command.Usage, called when no other call of Usage is in progress.  clr:
\* the colour is enabled (ctxs[0].color), disabled when no context is given.
\* cache is cmd.usage when the call returns.
Usage(cmd, clr) ==
    IF usage[cmd] # EmptyStr
    THEN [ret |-> usage[cmd], cache |-> usage[cmd], calls |-> <<>>]
    ELSE [ret |-> buildUsage(cmd, clr), cache |-> buildUsage(cmd, clr),
          calls |-> buildCalls(cmd)]

\* ---------------------------------------------------------------- dispatch

\* An error value, as the caller of RunWithWriter receives it.  wrapped: it
\* went through wrapErr, which carries the suggestion text.
NoError == [kind |-> "nil", arg |-> EmptyStr, suggestion |-> <<>>, wrapped |-> FALSE]
throwCommandNotFound(arg) ==
    [kind |-> "CommandNotFound", arg |-> arg, suggestion |-> <<>>, wrapped |-> FALSE]
throwMethodNotAllowed(arg) ==
    [kind |-> "MethodNotAllowed", arg |-> arg, suggestion |-> <<>>, wrapped |-> FALSE]
ParseError == [kind |-> "ArgumentParseError", arg |-> EmptyStr, suggestion |-> <<>>, wrapped |-> FALSE]
ValidateError == [kind |-> "ValidationError", arg |-> EmptyStr, suggestion |-> <<>>, wrapped |-> FALSE]
HandlerError == [kind |-> "HandlerError", arg |-> EmptyStr, suggestion |-> <<>>, wrapped |-> FALSE]

wrapErr(err, suggestion) == [err EXCEPT !.suggestion = suggestion, !.wrapped = TRUE]

\* What the collaborators do in one dispatch: the argument parser fails or
\* not and asks to skip validation or not, Validate fails or not, the handler
\* returns an error or nil.
Envs ==
    {e \in [parseErr : BOOLEAN, dontValidate : BOOLEAN,
            validateErr : BOOLEAN, fnErr : BOOLEAN] :
        e.parseErr => (~e.dontValidate /\ ~e.validateErr /\ ~e.fnErr)}

\* The router prefix: the arguments before the first one that starts with a dash.
RECURSIVE splitArgs(_)
splitArgs(args) ==
    IF Len(args) = 0 THEN <<>>
    ELSE IF HasPrefix(Head(args), dashOne) THEN <<>>
    ELSE <<Head(args)>> \o splitArgs(Tail(args))

\* "if route fail" (command.go:255).
routeFail(child, end, router) ==
    child = Nil \/ (~CanSubRoute[child] /\ end # Len(router))

\* The method gate with an empty allowed list taken as allowing no method.
methodAllowedStrict(httpMethods, child) ==
    IF Len(httpMethods) = 0 THEN TRUE
    ELSE \E i \in 1..Len(HTTPMethods[child]) : httpMethods[1] = HTTPMethods[child][i]

\* The method gate (command.go:272-285).
methodAllowed(httpMethods, child) ==
    IF Len(httpMethods) = 0 \/ Len(HTTPMethods[child]) = 0 THEN TRUE
    ELSE \E i \in 1..Len(HTTPMethods[child]) : httpMethods[1] = HTTPMethods[child][i]

\* The suggestion text (command.go:257-268), as its lines.
renderSuggestion(suggestions) ==
    IF Len(suggestions) = 0 THEN <<>>
    ELSE IF Len(suggestions) = 1 THEN <<<<"Did you mean ?">>, suggestions[1]>>
    ELSE <<<<"Did you mean one of these?">>>> \o suggestions

\* newContext: the context, the error of the argument parser if it fails,
\* and the collaborators called.
newContext(path, router, args, argv, env) ==
    LET ctx == [path |-> path, router |-> router, argv |-> argv,
                nativeArgs |-> args, command |-> Nil]
    IN IF argv # "nil"
       THEN IF env.parseErr
            THEN [ctx |-> <<>>, err |-> ParseError,
                  calls |-> <<[call |-> "parseArgv", cmd |-> Nil]>>]
            ELSE [ctx |-> <<ctx>>, err |-> NoError,
                  calls |-> <<[call |-> "parseArgv", cmd |-> Nil]>>]
       ELSE [ctx |-> <<ctx>>, err |-> NoError, calls |-> <<>>]

\* The handler's error sent through wrapErr like the closure's errors.
invokeFnWrapped(r, ctx, env) ==
    IF ~Fn[ctx.command]
    THEN [r EXCEPT !.outcome = "panic", !.ctx = <<ctx>>]
    ELSE LET fnRet == IF env.fnErr THEN HandlerError ELSE NoError
         IN [r EXCEPT !.outcome = IF env.fnErr THEN "Failed" ELSE "Done",
                      !.ctx = <<ctx>>,
                      !.calls = Append(@, [call |-> "Fn", cmd |-> ctx.command]),
                      !.fnRet = <<fnRet>>,
                      !.ret = IF env.fnErr THEN wrapErr(fnRet, r.suggestion) ELSE fnRet]

\* The end of RunWithWriter (command.go:317-326) once the closure returned nil:
\* the handler of ctx.command is called and its result returned as it is.  A
\* nil handler is a call of a nil func, a run-time panic.
invokeFn(r, ctx, env) ==
    IF ~Fn[ctx.command]
    THEN [r EXCEPT !.outcome = "panic", !.ctx = <<ctx>>]
    ELSE LET fnRet == IF env.fnErr THEN HandlerError ELSE NoError
         IN [r EXCEPT !.outcome = IF env.fnErr THEN "Failed" ELSE "Done",
                      !.ctx = <<ctx>>,
                      !.calls = Append(@, [call |-> "Fn", cmd |-> ctx.command]),
                      !.fnRet = <<fnRet>>,
                      !.ret = fnRet]

\* The closure's error return followed by wrapErr (command.go:317-319).
failWith(r, err, suggestion) ==
    [r EXCEPT !.outcome = "Failed", !.suggestion = suggestion,
              !.ret = wrapErr(err, suggestion)]

\* The argument object validated after the handler ran.
createAndValidateLate(r, path, router, args, child, end, env) ==
    LET argv == Argv[child]
        r1 == IF argv # "nil"
              THEN [r EXCEPT !.calls = Append(@, [call |-> "Argv", cmd |-> child])]
              ELSE r
        nc == newContext(path, SubSeq(router, 1, end),
                         SubSeq(args, end + 1, Len(args)), argv, env)
        r2 == [r1 EXCEPT !.calls = @ \o nc.calls, !.ctx = nc.ctx]
    IN IF nc.err # NoError THEN failWith(r2, nc.err, <<>>)
       ELSE IF argv # "nil" /\ ~env.dontValidate /\ argv = "validator"
       THEN LET r3 == invokeFn(r2, [nc.ctx[1] EXCEPT !.command = child], env)
                r4 == [r3 EXCEPT !.calls = Append(@, [call |-> "Validate", cmd |-> child])]
            IN IF env.validateErr THEN failWith(r4, ValidateError, <<>>)
               ELSE r4
       ELSE invokeFn(r2, [nc.ctx[1] EXCEPT !.command = child], env)

\* The argument object validated also when the parser asks to skip it.
createAndValidateAlways(r, path, router, args, child, end, env) ==
    LET argv == Argv[child]
        r1 == IF argv # "nil"
              THEN [r EXCEPT !.calls = Append(@, [call |-> "Argv", cmd |-> child])]
              ELSE r
        nc == newContext(path, SubSeq(router, 1, end),
                         SubSeq(args, end + 1, Len(args)), argv, env)
        r2 == [r1 EXCEPT !.calls = @ \o nc.calls, !.ctx = nc.ctx]
    IN IF nc.err # NoError THEN failWith(r2, nc.err, <<>>)
       ELSE IF argv # "nil" /\ argv = "validator"
       THEN LET r3 == [r2 EXCEPT !.calls = Append(@, [call |-> "Validate", cmd |-> child])]
            IN IF env.validateErr THEN failWith(r3, ValidateError, <<>>)
               ELSE invokeFn(r3, [nc.ctx[1] EXCEPT !.command = child], env)
       ELSE invokeFn(r2, [nc.ctx[1] EXCEPT !.command = child], env)

\* The context given the arguments after the whole router prefix.
createAndValidateAfterPrefix(r, path, router, args, child, end, env) ==
    LET argv == Argv[child]
        r1 == IF argv # "nil"
              THEN [r EXCEPT !.calls = Append(@, [call |-> "Argv", cmd |-> child])]
              ELSE r
        nc == newContext(path, SubSeq(router, 1, end),
                         SubSeq(args, Len(router) + 1, Len(args)), argv, env)
        r2 == [r1 EXCEPT !.calls = @ \o nc.calls, !.ctx = nc.ctx]
    IN IF nc.err # NoError THEN failWith(r2, nc.err, <<>>)
       ELSE IF argv # "nil" /\ ~env.dontValidate /\ argv = "validator"
       THEN LET r3 == [r2 EXCEPT !.calls = Append(@, [call |-> "Validate", cmd |-> child])]
            IN IF env.validateErr THEN failWith(r3, ValidateError, <<>>)
               ELSE invokeFn(r3, [nc.ctx[1] EXCEPT !.command = child], env)
       ELSE invokeFn(r2, [nc.ctx[1] EXCEPT !.command = child], env)

\* command.go:290-314: the argument object is made, the context is built,
\* the argument object validated.
createAndValidate(r, path, router, args, child, end, env) ==
    LET argv == Argv[child]
        r1 == IF argv # "nil"
              THEN [r EXCEPT !.calls = Append(@, [call |-> "Argv", cmd |-> child])]
              ELSE r
        nc == newContext(path, SubSeq(router, 1, end),
                         SubSeq(args, end + 1, Len(args)), argv, env)
        r2 == [r1 EXCEPT !.calls = @ \o nc.calls, !.ctx = nc.ctx]
    IN IF nc.err # NoError THEN failWith(r2, nc.err, <<>>)
       ELSE IF argv # "nil" /\ ~env.dontValidate /\ argv = "validator"
       THEN LET r3 == [r2 EXCEPT !.calls = Append(@, [call |-> "Validate", cmd |-> child])]
            IN IF env.validateErr THEN failWith(r3, ValidateError, <<>>)
               ELSE invokeFn(r3, [nc.ctx[1] EXCEPT !.command = child], env)
       ELSE invokeFn(r2, [nc.ctx[1] EXCEPT !.command = child], env)

\* Command.RunWithWriter: the heap the call leaves (h) and the record of the
\* call (rec): its inputs, what it returned (ret) or how else it ended
\* (outcome), the context newContext built (with its command once that is
\* set), and the collaborators called, in order.
RunWithWriter(cmd, args, httpMethods, env) ==
    LET router == splitArgs(args)
        path == Join(router, Space)
        sr == SubRoute(Heap, cmd, router)
        child == sr[1]
        end == sr[2]
        r0 == [op |-> "Run", cmd |-> cmd, args |-> args, httpMethods |-> httpMethods,
               env |-> env, router |-> router, child |-> Nil, end |-> 0,
               outcome |-> "", ret |-> NoError, suggestion |-> <<>>,
               suggested |-> <<>>, ctx |-> <<>>, calls |-> <<>>, fnRet |-> <<>>]
        r == [r0 EXCEPT !.child = child, !.end = end]
    IN IF Len(router) = 0 /\ ~Fn[cmd]
       THEN [rec |-> failWith(r0, throwCommandNotFound(Name[cmd]), <<>>), h |-> Heap]
       ELSE IF routeFail(child, end, router)
       THEN LET sug == Suggestions(Heap, cmd, path)
            IN IF sug.diverges
               THEN [rec |-> [r EXCEPT !.outcome = "diverge", !.suggested = <<path>>],
                     h |-> Heap]
               ELSE [rec |-> failWith([r EXCEPT !.suggested = <<path>>],
                                      throwCommandNotFound(path),
                                      renderSuggestion(sug.list)),
                     h |-> sug.h]
       ELSE IF ~methodAllowed(httpMethods, child)
       THEN [rec |-> failWith(r, throwMethodNotAllowed(httpMethods[1]), <<>>), h |-> Heap]
       ELSE [rec |-> createAndValidate(r, path, router, args, child, end, env), h |-> Heap]

\* The collaborator results that a dispatch of these inputs can tell apart:
\* a collaborator that is not called when all of them succeed is not called
\* when one fails, and its result is left at "succeeds".
OkEnv == [parseErr |-> FALSE, dontValidate |-> FALSE, validateErr |-> FALSE, fnErr |-> FALSE]

EnvsOf(cmd, args, httpMethods) ==
    LET ok == RunWithWriter(cmd, args, httpMethods, OkEnv).rec
        called(what) == \E i \in 1..Len(ok.calls) : ok.calls[i].call = what
    IN {e \in Envs : /\ e.parseErr => called("parseArgv")
                     /\ (e.dontValidate \/ e.validateErr) => called("Validate")
                     /\ e.fnErr => called("Fn")}

\* ----------------------------------------------------------------- actions

\* cmd.Register(child)
DoRegister(cmd, child) ==
    /\ \E r \in {Register(Heap, cmd, child)} :
          /\ parent' = r.h.parent
          /\ children' = r.h.children
          /\ spare' = r.h.spare
          /\ last' = [op |-> "Register", cmd |-> cmd, child |-> child,
                      panic |-> r.panic, ret |-> r.ret]
    /\ UNCHANGED <<Name, Desc, Text, Fn, Argv, CanSubRoute, HTTPMethods, usage, callers>>

\* A command nothing refers to yet with these fields, and the zero value in
\* the others: what &Command{Name: name, Fn: fn, Argv: argvFn} makes.
NewCommands(name, fn, argvFn) ==
    {n \in Objs : /\ parent[n] = Nil /\ children[n] = <<>>
                  /\ Name[n] = name /\ Fn[n] = fn /\ Argv[n] = argvFn
                  /\ Desc[n] = EmptyStr /\ Text[n] = EmptyStr
                  /\ ~CanSubRoute[n] /\ HTTPMethods[n] = <<>>
                  /\ spare[n] = <<>> /\ usage[n] = EmptyStr}

\* cmd.RegisterFunc(name, fn, argvFn): a new command is made and registered.
DoRegisterFunc(cmd, name, fn, argvFn) ==
    /\ NewCommands(name, fn, argvFn) \ {cmd} # {}
    /\ LET new == CHOOSE n \in NewCommands(name, fn, argvFn) \ {cmd} :
                      \A m \in NewCommands(name, fn, argvFn) \ {cmd} : n <= m
       IN \E r \in {Register(Heap, cmd, new)} :
             /\ parent' = r.h.parent
             /\ children' = r.h.children
             /\ spare' = r.h.spare
             /\ last' = [op |-> "RegisterFunc", cmd |-> cmd, child |-> new,
                         panic |-> r.panic, ret |-> r.ret]
    /\ UNCHANGED <<Name, Desc, Text, Fn, Argv, CanSubRoute, HTTPMethods, usage, callers>>

\* The forests handed to RegisterTree: ForestsOfSize(n) are the forests of n
\* trees and sub-trees in all, each with a command of the program.
RECURSIVE ForestsOfSize(_)
ForestsOfSize(n) ==
    IF n = 0 THEN {<<>>}
    ELSE UNION {
        {<<[command |-> c, forest |-> sub]>> \o rest :
            c \in Cmds, sub \in ForestsOfSize(k - 1), rest \in ForestsOfSize(n - k)} :
        k \in 1..n}

Forests == UNION {ForestsOfSize(n) : n \in 1..MaxForest}

\* cmd.RegisterTree(forest...)
DoRegisterTree(cmd, forest) ==
    /\ \E r \in {RegisterTree(Heap, cmd, forest)} :
          /\ parent' = r.h.parent
          /\ children' = r.h.children
          /\ spare' = r.h.spare
          /\ last' = [op |-> "RegisterTree", cmd |-> cmd, forest |-> forest,
                      panic |-> r.panic]
    /\ UNCHANGED <<Name, Desc, Text, Fn, Argv, CanSubRoute, HTTPMethods, usage, callers>>

\* cmd.Run(args), which is cmd.RunWithWriter(args, nil)
DoRun(cmd, args, env) ==
    /\ \E r \in {RunWithWriter(cmd, args, <<>>, env)} :
          /\ last' = r.rec
          /\ parent' = r.h.parent
          /\ children' = r.h.children
          /\ spare' = r.h.spare
    /\ UNCHANGED <<Name, Desc, Text, Fn, Argv, CanSubRoute, HTTPMethods, usage, callers>>

\* cmd.RunWithWriter(args, writer, httpMethods...)
DoRunWithWriter(cmd, args, httpMethods, env) ==
    /\ \E r \in {RunWithWriter(cmd, args, httpMethods, env)} :
          /\ last' = r.rec
          /\ parent' = r.h.parent
          /\ children' = r.h.children
          /\ spare' = r.h.spare
    /\ UNCHANGED <<Name, Desc, Text, Fn, Argv, CanSubRoute, HTTPMethods, usage, callers>>

\* cmd.Suggestions(path)
DoSuggestions(cmd, path) ==
    /\ \E sug \in {Suggestions(Heap, cmd, path)} :
          /\ last' = [op |-> "Suggestions", cmd |-> cmd, path |-> path,
                      outcome |-> IF sug.diverges THEN "diverge" ELSE "returned",
                      ret |-> sug.list]
          /\ parent' = sug.h.parent
          /\ children' = sug.h.children
          /\ spare' = sug.h.spare
    /\ UNCHANGED <<Name, Desc, Text, Fn, Argv, CanSubRoute, HTTPMethods, usage, callers>>

\* cmd.SubRoute(router)
DoSubRoute(cmd, router) ==
    /\ last' = [op |-> "SubRoute", cmd |-> cmd, router |-> router,
                ret |-> SubRoute(Heap, cmd, router)]
    /\ UNCHANGED <<Name, Desc, Text, Fn, Argv, CanSubRoute, HTTPMethods, parent, children,
                   spare, usage, callers>>

\* cmd.Route(router)
DoRoute(cmd, router) ==
    /\ last' = [op |-> "Route", cmd |-> cmd, router |-> router,
                ret |-> Route(Heap, cmd, router)]
    /\ UNCHANGED <<Name, Desc, Text, Fn, Argv, CanSubRoute, HTTPMethods, parent, children,
                   spare, usage, callers>>

\* cmd.Usage() or cmd.Usage(ctx), with no other call of Usage in progress.
DoUsage(cmd, clr) ==
    /\ LET r == Usage(cmd, clr)
       IN /\ usage' = [usage EXCEPT ![cmd] = r.cache]
          /\ last' = [op |-> "Usage", cmd |-> cmd, clr |-> clr,
                      ret |-> r.ret, calls |-> r.calls]
    /\ UNCHANGED <<Name, Desc, Text, Fn, Argv, CanSubRoute, HTTPMethods, parent, children,
                   spare, callers>>

\* Goroutine c calls cmd.Usage and reads the cache under the lock
\* (command.go:337-339); it returns what it read unless that is empty.
UsageLoad(c, cmd, clr) ==
    /\ callers[c].pc = "idle"
    /\ callers' = [callers EXCEPT ![c] =
           IF usage[cmd] # EmptyStr
           THEN [pc |-> "done", cmd |-> cmd, clr |-> clr, tmpUsage |-> usage[cmd]]
           ELSE [pc |-> "build", cmd |-> cmd, clr |-> clr, tmpUsage |-> EmptyStr]]
    /\ UNCHANGED <<Name, Desc, Text, Fn, Argv, CanSubRoute, HTTPMethods, parent, children,
                   spare, usage, last>>

\* Goroutine c builds the text, outside the lock (command.go:344-360).
UsageBuild(c) ==
    /\ callers[c].pc = "build"
    /\ callers' = [callers EXCEPT ![c].pc = "store",
                                  ![c].tmpUsage = buildUsage(callers[c].cmd, callers[c].clr)]
    /\ UNCHANGED <<Name, Desc, Text, Fn, Argv, CanSubRoute, HTTPMethods, parent, children,
                   spare, usage, last>>

\* Goroutine c stores its text in the cache under the lock and returns it
\* (command.go:361-364).
UsageStore(c) ==
    /\ callers[c].pc = "store"
    /\ usage' = [usage EXCEPT ![callers[c].cmd] = callers[c].tmpUsage]
    /\ callers' = [callers EXCEPT ![c].pc = "done"]
    /\ UNCHANGED <<Name, Desc, Text, Fn, Argv, CanSubRoute, HTTPMethods, parent, children,
                   spare, last>>

\* The caller of goroutine c is done with the text returned.
UsageReturn(c) ==
    /\ callers[c].pc = "done"
    /\ callers' = [callers EXCEPT ![c] = NoUsage]
    /\ UNCHANGED <<Name, Desc, Text, Fn, Argv, CanSubRoute, HTTPMethods, parent, children,
                   spare, usage, last>>

\* cmd.Path().  The loop is the loop of Root with a string built on the way:
\* on a cycle of parent links it never ends.
DoPath(cmd) ==
    /\ last' = IF Root(Heap, cmd) = Nil
               THEN [op |-> "Path", cmd |-> cmd, outcome |-> "diverge", ret |-> EmptyStr]
               ELSE [op |-> "Path", cmd |-> cmd, outcome |-> "returned",
                     ret |-> Path(Heap, cmd)]
    /\ UNCHANGED <<Name, Desc, Text, Fn, Argv, CanSubRoute, HTTPMethods, parent, children,
                   spare, usage, callers>>

\* The caller is done with the result of the call; the context is dropped.
Discard ==
    /\ last # NoCall
    /\ last' = NoCall
    /\ UNCHANGED <<Name, Desc, Text, Fn, Argv, CanSubRoute, HTTPMethods, parent, children,
                   spare, usage, callers>>

\* The names and argument factories RegisterFunc is called with.
FuncNames == {EmptyStr, strA, strB}
FuncArgvs == {"nil", "plain"}

\* No call is in progress: the program makes its next call.
Idle == last = NoCall

Next ==
    \/ Idle /\ \E cmd \in Cmds, child \in Objs \cup {Nil} : DoRegister(cmd, child)
    \/ Idle /\ \E cmd \in Cmds, name \in FuncNames, fn \in BOOLEAN, argvFn \in FuncArgvs :
          DoRegisterFunc(cmd, name, fn, argvFn)
    \/ Idle /\ \E cmd \in Cmds, forest \in Forests : DoRegisterTree(cmd, forest)
    \/ Idle /\ \E cmd \in Cmds, args \in SeqUpTo(Tokens, MaxArgs) :
          \E env \in EnvsOf(cmd, args, <<>>) : DoRun(cmd, args, env)
    \/ Idle /\ \E cmd \in Cmds, args \in SeqUpTo(Tokens, MaxArgs),
          httpMethods \in MethodLists \ {<<>>} :
          \E env \in EnvsOf(cmd, args, httpMethods) :
              DoRunWithWriter(cmd, args, httpMethods, env)
    \/ Idle /\ \E cmd \in Cmds, router \in SeqUpTo(Tokens, MaxArgs) : DoSubRoute(cmd, router)
    \/ Idle /\ \E cmd \in Cmds, router \in SeqUpTo(Tokens, MaxArgs) : DoRoute(cmd, router)
    \/ Discard

Spec == Init /\ [][Next]_vars

\* The program while it builds its tree: registration calls only.
NextTree ==
    \/ Idle /\ \E cmd \in Cmds, child \in Objs \cup {Nil} : DoRegister(cmd, child)
    \/ Idle /\ \E cmd \in Cmds, name \in FuncNames, fn \in BOOLEAN, argvFn \in FuncArgvs :
          DoRegisterFunc(cmd, name, fn, argvFn)
    \/ Idle /\ \E cmd \in Cmds, forest \in Forests : DoRegisterTree(cmd, forest)
    \/ Discard

SpecTree == Init /\ [][NextTree]_vars

\* The program while it registers commands one by one and dispatches.
NextDispatch ==
    \/ Idle /\ \E cmd \in Cmds, child \in Objs \cup {Nil} : DoRegister(cmd, child)
    \/ Idle /\ \E cmd \in Cmds, args \in SeqUpTo(Tokens, MaxArgs) :
          \E env \in EnvsOf(cmd, args, <<>>) : DoRun(cmd, args, env)
    \/ Idle /\ \E cmd \in Cmds, args \in SeqUpTo(Tokens, MaxArgs),
          httpMethods \in MethodLists \ {<<>>} :
          \E env \in EnvsOf(cmd, args, httpMethods) :
              DoRunWithWriter(cmd, args, httpMethods, env)
    \/ Discard

SpecDispatch == Init /\ [][NextDispatch]_vars

\* The names the commands are given when Path and Route are exercised: one
\* of them holds the separator of Path.
PathNames == {strA, <<"a", " ", "a">>}

\* The program with its commands named in any of these ways.
InitPath ==
    /\ Name \in {f \in [Objs -> PathNames \cup {EmptyStr}] :
                    \A n \in Objs : f[n] = EmptyStr <=> n = Anon}
    /\ Desc = [n \in Objs |-> LitDesc(n)]
    /\ Text = [n \in Objs |-> LitText(n)]
    /\ Fn = [n \in Objs |-> LitFn(n)]
    /\ Argv = [n \in Objs |-> LitArgv(n)]
    /\ CanSubRoute = [n \in Objs |-> LitCanSubRoute(n)]
    /\ HTTPMethods = [n \in Objs |-> LitHTTPMethods(n)]
    /\ parent = [n \in Objs |-> Nil]
    /\ children = [n \in Objs |-> <<>>]
    /\ spare = [n \in Objs |-> <<>>]
    /\ usage = [n \in Objs |-> EmptyStr]
    /\ callers = [c \in Callers |-> NoUsage]
    /\ last = NoCall

\* The program while it registers commands and asks for paths and routes.
NextPath ==
    \/ Idle /\ \E cmd \in Cmds, child \in Objs \cup {Nil} : DoRegister(cmd, child)
    \/ Idle /\ \E cmd \in Cmds : DoPath(cmd)
    \/ Idle /\ \E cmd \in Cmds, router \in SeqUpTo(PathNames, MaxArgs) : DoRoute(cmd, router)
    \/ Discard

SpecPath == InitPath /\ [][NextPath]_vars

\* No goroutine is in a call of Usage and no usage text was cached yet.
BeforeUsage ==
    /\ \A c \in Callers : callers[c].pc = "idle"
    /\ \A n \in Objs : usage[n] = EmptyStr

\* The program while it asks for usage texts, one call at a time, of a tree
\* registered before the first text is cached.
NextUsage ==
    \/ Idle /\ BeforeUsage /\ \E cmd \in Cmds, child \in Objs \cup {Nil} : DoRegister(cmd, child)
    \/ (Idle \/ last.op = "Usage") /\ \E cmd \in Cmds, clr \in BOOLEAN : DoUsage(cmd, clr)
    \/ Discard

SpecUsage == Init /\ [][NextUsage]_vars

\* The program with goroutines that call Usage at the same time, on a tree
\* registered before the first of them starts.
NextUsageConc ==
    \/ Idle /\ BeforeUsage /\ \E cmd \in Cmds, child \in Objs \cup {Nil} : DoRegister(cmd, child)
    \/ Discard
    \/ Idle /\ \E c \in Callers, cmd \in Cmds, clr \in BOOLEAN : UsageLoad(c, cmd, clr)
    \/ \E c \in Callers : UsageBuild(c)
    \/ \E c \in Callers : UsageStore(c)
    \/ \E c \in Callers : UsageReturn(c)

SpecUsageConc == Init /\ [][NextUsageConc]_vars

\* =================================================================== claims

\* The commands c[0] = cmd, c[1], ..., c[k] with c[i] a child of c[i-1] named
\* tokens[i]: the chains of children that spell the first k tokens.
Chains(cmd, tokens, k) ==
    {c \in [0..k -> Cmds] :
        /\ c[0] = cmd
        /\ \A i \in 1..k :
              /\ \E j \in 1..Len(children[c[i - 1]]) : children[c[i - 1]][j] = c[i]
              /\ Name[c[i]] = tokens[i]}

HasChildNamed(cmd, name) ==
    \E j \in 1..Len(children[cmd]) : Name[children[cmd][j]] = name

\* A second program, with a tree large enough for a command at depth three
\* and for a command with three children.  Its commands are registered in
\* the order of their numbers, each under one of WideParents or not at all.
WideObjs == 1..NumWide
WideName(n) == IF n \in {3, 5} THEN strB ELSE IF n = 6 THEN <<"c">> ELSE strA
WideFn(n) == n # 3
WideArgv(n) == IF n = 2 THEN "validator" ELSE IF n % 2 = 1 THEN "nil" ELSE "plain"
WideCanSubRoute(n) == n % 2 = 0
WideHTTPMethods(n) == IF n = 2 THEN <<"GET">> ELSE <<>>
WideParents(n) ==
    IF n <= 3 THEN {1} ELSE IF n = 4 THEN {2} ELSE IF n = 5 THEN {2, 4}
    ELSE IF n = 6 THEN {2, 3} ELSE {3}

\* The parent, or Nil, of each of the commands 1..n.
RECURSIVE WideParentMaps(_)
WideParentMaps(n) ==
    IF n = 1 THEN {<<Nil>>}
    ELSE {Append(f, p) : f \in WideParentMaps(n - 1), p \in WideParents(n) \cup {Nil}}

\* The heap after f[n].Register(n), f[n+1].Register(n+1), ...
RECURSIVE WideBuild(_, _, _)
WideBuild(h, f, n) ==
    IF n > Len(f) THEN h
    ELSE WideBuild(IF f[n] = Nil THEN h ELSE Register(h, f[n], n).h, f, n + 1)

InitWide ==
    /\ Name = [n \in WideObjs |-> WideName(n)]
    /\ Desc = [n \in WideObjs |-> EmptyStr]
    /\ Text = [n \in WideObjs |-> EmptyStr]
    /\ Fn = [n \in WideObjs |-> WideFn(n)]
    /\ Argv = [n \in WideObjs |-> WideArgv(n)]
    /\ CanSubRoute = [n \in WideObjs |-> WideCanSubRoute(n)]
    /\ HTTPMethods = [n \in WideObjs |-> WideHTTPMethods(n)]
    /\ \E f \in WideParentMaps(NumWide) :
          LET h == WideBuild([Name |-> [n \in WideObjs |-> WideName(n)],
                              parent |-> [n \in WideObjs |-> Nil],
                              children |-> [n \in WideObjs |-> <<>>],
                              spare |-> [n \in WideObjs |-> <<>>]], f, 2)
          IN /\ parent = h.parent
             /\ children = h.children
             /\ spare = h.spare
    /\ usage = [n \in WideObjs |-> EmptyStr]
    /\ callers = [c \in Callers |-> NoUsage]
    /\ last = NoCall

\* The paths Suggestions is asked about.
SugPaths == {Join(router, Space) : router \in SeqUpTo({strA, strB}, MaxArgs)}

\* The second program once its tree is built: it dispatches and asks for
\* suggestions.
NextWide ==
    \/ Idle /\ \E cmd \in WideObjs, path \in SugPaths : DoSuggestions(cmd, path)
    \/ Idle /\ \E cmd \in WideObjs, args \in SeqUpTo(Tokens, MaxArgs) :
          \E env \in EnvsOf(cmd, args, <<>>) : DoRun(cmd, args, env)
    \/ Idle /\ \E cmd \in WideObjs, args \in SeqUpTo(Tokens, MaxArgs),
          httpMethods \in MethodLists \ {<<>>} :
          \E env \in EnvsOf(cmd, args, httpMethods) :
              DoRunWithWriter(cmd, args, httpMethods, env)
    \/ Discard

SpecWide == InitWide /\ [][NextWide]_vars

\* ------------------------------------------------------------------- C2
\* C2: SubRoute(root, tokens) returns (n, k) where the first k tokens are the
\* names of a chain of children from root to n, and either k is the number
\* of tokens or n has no child named like the next token.
C2_SubRouteGreedy ==
    last.op = "SubRoute" =>
        LET n == last.ret[1]
            k == last.ret[2]
        IN /\ k \in 0..Len(last.router)
           /\ \E c \in Chains(last.cmd, last.router, k) : c[k] = n
           /\ k = Len(last.router) \/ ~HasChildNamed(n, last.router[k + 1])

\* A SubRoute that went down at least one child and stopped before the end.
C2_Witness ==
    /\ last.op = "SubRoute"
    /\ last.ret[2] >= 1
    /\ last.ret[2] < Len(last.router)

\* ------------------------------------------------------------------- C3
\* C3: Route(root, tokens) returns the node at the end of the chain of
\* children that spells every token, and nil when the chain stops before
\* the last token, whatever the CanSubRoute flag of the node it stops at.
C3_RouteStrict ==
    last.op = "Route" =>
        LET full == Chains(last.cmd, last.router, Len(last.router))
        IN IF full = {} THEN last.ret = Nil
           ELSE \E c \in full : last.ret = c[Len(last.router)]

\* A Route that stops with a token left at a sub-routable command.
C3_Witness ==
    /\ last.op = "Route"
    /\ last.ret = Nil
    /\ \E k \in 1..(Len(last.router) - 1) :
          \E c \in Chains(last.cmd, last.router, k) :
              CanSubRoute[c[k]] /\ ~HasChildNamed(c[k], last.router[k + 1])

\* ------------------------------------------------------------------- C4
\* C4: Register(parent, child) panics when child is nil, has an empty name,
\* already has a parent, or parent already has a child of that name; in
\* every other case it appends child to parent.children, sets child.parent
\* to parent and returns child.
C4_RegisterStep ==
    last'.op = "Register" =>
        LET p == last'.cmd
            c == last'.child
        IN IF \/ c = Nil
              \/ Name[c] = EmptyStr
              \/ parent[c] # Nil
              \/ HasChildNamed(p, Name[c])
           THEN last'.panic # ""
           ELSE /\ last'.panic = ""
                /\ children' = [children EXCEPT ![p] = Append(@, c)]
                /\ parent' = [parent EXCEPT ![c] = p]
                /\ last'.ret = c

C4_Register == [][C4_RegisterStep]_vars

\* An accepted Register that put the child after an earlier one.
C4_Witness ==
    /\ last.op = "Register"
    /\ last.panic = ""
    /\ Len(children[last.cmd]) >= 2
    /\ children[last.cmd][Len(children[last.cmd])] = last.child

\* ------------------------------------------------------------------- C5
\* C5: in every state reached by registrations, no two siblings share a
\* name, every command is in at most one children list and at most once in
\* it, and n is in p.children if and only if n.parent = p.
Occurrences(n) ==
    {pi \in Cmds \X (1..NumCmds) :
        pi[2] <= Len(children[pi[1]]) /\ children[pi[1]][pi[2]] = n}

C5_TreeInvariant ==
    /\ \A p \in Cmds : \A i, j \in 1..Len(children[p]) :
          i # j => Name[children[p][i]] # Name[children[p][j]]
    /\ \A n \in Cmds : Cardinality(Occurrences(n)) <= 1
    /\ \A n, p \in Cmds :
          (\E i \in 1..Len(children[p]) : children[p][i] = n) <=> parent[n] = p

\* A RegisterTree that was accepted, registered a tree with its sub-forest
\* and left a command two levels below a root.
C5_Witness ==
    /\ last.op = "RegisterTree"
    /\ last.panic = ""
    /\ Len(last.forest[1].forest) > 0
    /\ \E n \in Cmds : /\ parent[n] # Nil
                        /\ parent[parent[n]] # Nil
                        /\ parent[parent[parent[n]]] = Nil

\* ------------------------------------------------------------------- C6
\* C6: after any accepted registrations the parent links have no cycle:
\* from every command the walk up the parent links ends at a command
\* without parent (Root and Path return).
C6_NoCycle == \A n \in Cmds : Root(Heap, n) # Nil

\* ------------------------------------------------------------- dispatch

\* The number of leading arguments that do not start with a dash.
PrefixLen(args) ==
    CHOOSE m \in 0..Len(args) :
        /\ \A i \in 1..m : ~HasPrefix(args[i], dashOne)
        /\ m = Len(args) \/ HasPrefix(args[m + 1], dashOne)

\* The number of tokens of the router prefix that routing from cmd consumes:
\* the longest chain of children that spells a prefix of it.
Consumed(cmd, args) ==
    CHOOSE k \in 0..PrefixLen(args) :
        /\ Chains(cmd, args, k) # {}
        /\ \A m \in (k + 1)..PrefixLen(args) : Chains(cmd, args, m) = {}

\* The command routing from cmd stops at.
Matched(cmd, args) ==
    (CHOOSE c \in Chains(cmd, args, Consumed(cmd, args)) : TRUE)[Consumed(cmd, args)]

FnCalls(calls) == {i \in 1..Len(calls) : calls[i].call = "Fn"}
CallsOf(calls, what) == {i \in 1..Len(calls) : calls[i].call = what}

\* ------------------------------------------------------------------- C1
\* C1: in every dispatch that reaches the handler, the context's router is
\* the tokens consumed by routing, its path is those tokens joined by single
\* spaces, and its residual arguments are the tokens routing did not consume.
C1_Context ==
    (last.op = "Run" /\ FnCalls(last.calls) # {}) =>
        LET k == Consumed(last.cmd, last.args)
            ctx == last.ctx[1]
        IN /\ ctx.router = SubSeq(last.args, 1, k)
           /\ ctx.path = Join(SubSeq(last.args, 1, k), Space)
           /\ ctx.nativeArgs = SubSeq(last.args, k + 1, Len(last.args))

\* ------------------------------------------------------------------- C7
\* C7: every dispatch ends Done or Failed, and a dispatch that does not fail
\* in routing, method gating, parsing or validation runs exactly one
\* handler, the handler of the matched command.
C7_OneHandler ==
    last.op = "Run" =>
        /\ last.outcome \in {"Done", "Failed"}
        /\ ~last.ret.wrapped =>
              /\ Cardinality(FnCalls(last.calls)) = 1
              /\ \A i \in FnCalls(last.calls) :
                    last.calls[i].cmd = Matched(last.cmd, last.args)

\* ------------------------------------------------------------------- C8
\* C8: when the driver returns an error of its own (routing, method, parse,
\* validation) no handler was called in that dispatch; the handler is called
\* at most once, and no collaborator is called twice.
C8_ErrorsBeforeHandler ==
    last.op = "Run" =>
        /\ last.ret.wrapped => FnCalls(last.calls) = {}
        /\ last.ret.kind \in {"CommandNotFound", "MethodNotAllowed",
                              "ArgumentParseError", "ValidationError"}
              => FnCalls(last.calls) = {}
        /\ \A what \in {"Argv", "parseArgv", "Validate", "Fn"} :
              Cardinality(CallsOf(last.calls, what)) <= 1
        /\ \A i \in FnCalls(last.calls) : i = Len(last.calls)

\* A dispatch that failed in validation, after the parser and the validator ran.
C8_Witness ==
    /\ last.op = "Run"
    /\ last.ret.kind = "ValidationError"
    /\ CallsOf(last.calls, "Validate") # {}

\* ------------------------------------------------------------------- C9
\* C9: an error returned by the handler is what the driver returns, as it
\* is; suggestion text is attached only to the error of a routing failure.
C9_HandlerErrorUnmodified ==
    last.op = "Run" =>
        /\ (last.fnRet # <<>> /\ last.fnRet[1] # NoError) => last.ret = last.fnRet[1]
        /\ last.ret.suggestion # <<>> =>
              /\ last.ret.kind = "CommandNotFound"
              /\ FnCalls(last.calls) = {}
              /\ Consumed(last.cmd, last.args) < PrefixLen(last.args)

\* A dispatch whose handler returned an error.
C9_Witness ==
    /\ last.op = "Run"
    /\ last.fnRet = <<HandlerError>>
    /\ last.outcome = "Failed"

\* ------------------------------------------------------------------ C10
\* C10: a dispatch fails with CommandNotFound exactly when the router prefix
\* is empty and the command has no handler, or routing stops before the end
\* of the router prefix at a command that is not sub-routable; in the second
\* case the suggestions are computed for the whole router prefix, joined.
C10_NotFound ==
    last.op = "Run" =>
        LET m == PrefixLen(last.args)
            k == Consumed(last.cmd, last.args)
            a == m = 0 /\ ~Fn[last.cmd]
            b == ~a /\ k < m /\ ~CanSubRoute[Matched(last.cmd, last.args)]
        IN /\ (last.outcome = "Failed" /\ last.ret.kind = "CommandNotFound") <=> (a \/ b)
           /\ b => last.suggested = <<Join(SubSeq(last.args, 1, m), Space)>>

\* The children of the commands in at that have that name.
ChildrenNamed(at, name) ==
    {c \in Cmds : /\ Name[c] = name
                  /\ \E p \in at : \E j \in 1..Len(children[p]) : children[p][j] = c}

\* <<at, k>> for the largest k <= m such that the first k tokens are the
\* names of a chain of children from the commands given; at: where such
\* chains end.
RECURSIVE Descend(_, _, _, _)
Descend(at, tokens, k, m) ==
    IF k = m \/ ChildrenNamed(at, tokens[k + 1]) = {} THEN <<at, k>>
    ELSE Descend(ChildrenNamed(at, tokens[k + 1]), tokens, k + 1, m)

\* A dispatch of args from cmd, as the specification of routing has it:
\* prefix tokens before the first flag, depth of them spell a chain of
\* children that ends at the command node, which is dispatched when the
\* whole prefix is spelled or node is sub-routable (matched).
Routing(cmd, args) ==
    LET m == PrefixLen(args)
        d == Descend({cmd}, args, 0, m)
        n == CHOOSE c \in d[1] : TRUE
    IN [prefix |-> m, depth |-> d[2], node |-> n,
        matched |-> ~(m = 0 /\ ~Fn[cmd]) /\ (d[2] = m \/ CanSubRoute[n])]

\* ------------------------------------------------------------------ C11
\* C11: a dispatch fails with MethodNotAllowed exactly when routing matched
\* a command, the caller gave a method, the matched command declares a
\* non-empty list of allowed methods and the method given is not in it; the
\* argument factory, the parser, the validator and the handler are then not
\* called and no context is built.
C11_MethodGate ==
    last.op = "Run" =>
        LET rt == Routing(last.cmd, last.args)
            declared == {HTTPMethods[rt.node][i] : i \in 1..Len(HTTPMethods[rt.node])}
            rejected == /\ Len(last.httpMethods) > 0
                        /\ rt.matched
                        /\ declared # {}
                        /\ last.httpMethods[1] \notin declared
        IN /\ (last.outcome = "Failed" /\ last.ret.kind = "MethodNotAllowed") <=> rejected
           /\ last.ret.kind = "MethodNotAllowed" =>
                 /\ last.calls = <<>>
                 /\ last.ctx = <<>>
                 /\ last.ret.arg = last.httpMethods[1]

\* A dispatch routed through a child to a command that does not allow the
\* method given.
C11_Witness ==
    /\ last.op = "Run"
    /\ last.ret.kind = "MethodNotAllowed"
    /\ Routing(last.cmd, last.args).depth >= 1
    /\ Argv[Routing(last.cmd, last.args).node] # "nil"

\* ------------------------------------------------------------------ C12
\* C12: of two calls of Usage on the same command, one right after the
\* other, the second returns the text the first returned, whatever the
\* colour of either caller, and calls neither the argument factory nor the
\* usage collaborator.
C12_UsageStep ==
    (last.op = "Usage" /\ last'.op = "Usage" /\ last'.cmd = last.cmd) =>
        /\ last'.ret = last.ret
        /\ last'.calls = <<>>

C12_UsageIdempotent == [][C12_UsageStep]_vars

\* A call of Usage with colour that got the text cached by a caller without
\* colour, for a command with an argument factory.
C12_Witness ==
    /\ last.op = "Usage"
    /\ last.clr
    /\ last.calls = <<>>
    /\ Argv[last.cmd] # "nil"
    /\ last.ret # EmptyStr
    /\ \A i \in 1..Len(last.ret) : last.ret[i] # "ESC[1m"

\* ------------------------------------------------------------------ C13
\* C13: with goroutines in Usage at the same time, the text of a command is
\* built and stored by one of them only, and every goroutine that has its
\* text holds the text that is in the cache.
C13_CacheOnce ==
    /\ \A n \in Cmds :
          Cardinality({c \in Callers : /\ callers[c].pc \in {"build", "store"}
                                       /\ callers[c].cmd = n}) <= 1
    /\ \A c \in Callers :
          (callers[c].pc = "done" /\ callers[c].tmpUsage # EmptyStr)
              => callers[c].tmpUsage = usage[callers[c].cmd]

\* ------------------------------------------------------------------ C14
\* The commands from the child of the root down to n, for a command n whose
\* parent links end at a root: each is a child of the one before.
RECURSIVE ChainFromRoot(_)
ChainFromRoot(n) ==
    IF parent[n] = Nil THEN <<>> ELSE Append(ChainFromRoot(parent[n]), n)

\* C14: for every command n attached to a tree (its parent links end at a
\* root), Path(n) is the names of the commands from the root's child down
\* to n joined by single spaces, without the root's name; Path(root) is empty.
C14_Path ==
    (last.op = "Path" /\ Root(Heap, last.cmd) # Nil) =>
        LET chain == ChainFromRoot(last.cmd)
        IN /\ last.outcome = "returned"
           /\ last.ret = Join([i \in 1..Len(chain) |-> Name[chain[i]]], Space)
           /\ \A i \in 1..Len(chain) :
                 \E j \in 1..Len(children[parent[chain[i]]]) :
                     children[parent[chain[i]]][j] = chain[i]

\* Path of a command two levels below a root whose own name is not in it.
C14_Witness ==
    /\ last.op = "Path"
    /\ last.outcome = "returned"
    /\ Len(ChainFromRoot(last.cmd)) = 2
    /\ Name[Root(Heap, last.cmd)] # Name[parent[last.cmd]]
    /\ Name[Root(Heap, last.cmd)] # Name[last.cmd]

\* ------------------------------------------------------------------ C19
\* The tokens of a path: the pieces between its spaces, none for the empty path.
RECURSIVE SplitSpaces(_, _)
SplitSpaces(s, cur) ==
    IF Len(s) = 0 THEN <<cur>>
    ELSE IF <<Head(s)>> = Space THEN <<cur>> \o SplitSpaces(Tail(s), EmptyStr)
    ELSE SplitSpaces(Tail(s), Append(cur, Head(s)))

TokensOf(path) == IF path = EmptyStr THEN <<>> ELSE SplitSpaces(path, EmptyStr)

HasSpace(s) == \E i \in 1..Len(s) : <<s[i]>> = Space

\* C19 as claimed: for every command n of a tree, Route from the root with
\* the tokens of Path(n) returns n and SubRoute consumes them all; and when
\* Route from a root with tokens t returns m, Path(m) is t joined by spaces.
C19_PathRouteInverse ==
    /\ (last.op = "Path" /\ last.outcome = "returned") =>
          LET t == TokensOf(last.ret)
          IN /\ Route(Heap, Root(Heap, last.cmd), t) = last.cmd
             /\ SubRoute(Heap, Root(Heap, last.cmd), t) = <<last.cmd, Len(t)>>
    /\ (last.op = "Route" /\ parent[last.cmd] = Nil /\ last.ret # Nil) =>
          Path(Heap, last.ret) = Join(last.router, Space)

\* C19 as amended: the same, for the commands n whose names from the root's
\* child down to n hold no space.
C19_PathRouteInverseNoSpace ==
    /\ (/\ last.op = "Path"
        /\ last.outcome = "returned"
        /\ \A i \in 1..Len(ChainFromRoot(last.cmd)) :
              ~HasSpace(Name[ChainFromRoot(last.cmd)[i]])) =>
          LET t == TokensOf(last.ret)
          IN /\ Route(Heap, Root(Heap, last.cmd), t) = last.cmd
             /\ SubRoute(Heap, Root(Heap, last.cmd), t) = <<last.cmd, Len(t)>>
    /\ (last.op = "Route" /\ parent[last.cmd] = Nil /\ last.ret # Nil) =>
          Path(Heap, last.ret) = Join(last.router, Space)

\* Path of a command two levels below its root, with names without space.
C19_Witness ==
    /\ last.op = "Path"
    /\ last.outcome = "returned"
    /\ Len(ChainFromRoot(last.cmd)) = 2
    /\ \A i \in 1..2 : ~HasSpace(Name[ChainFromRoot(last.cmd)[i]])
    /\ Len(TokensOf(last.ret)) = 2

\* ------------------------------------------------------------------ C16
\* C16: in a dispatch Validate is called exactly when routing matched and
\* the method passed, the matched command has an argument factory, the
\* parser succeeded and did not ask to skip validation, and the argument
\* object has Validate; it is called after the parser and before the
\* handler, and when it fails the dispatch fails with its error and the
\* handler is not called.
C16_Validate ==
    last.op = "Run" =>
        LET rt == Routing(last.cmd, last.args)
            n == rt.node
            declared == {HTTPMethods[n][i] : i \in 1..Len(HTTPMethods[n])}
            allowed == \/ Len(last.httpMethods) = 0
                       \/ declared = {}
                       \/ last.httpMethods[1] \in declared
            due == /\ ~last.env.parseErr
                   /\ ~last.env.dontValidate
                   /\ rt.matched
                   /\ allowed
                   /\ Argv[n] = "validator"
            v == CallsOf(last.calls, "Validate")
        IN /\ v # {} <=> due
           /\ \A i \in v :
                 /\ last.calls[i].cmd = n
                 /\ \E j \in CallsOf(last.calls, "parseArgv") : j < i
                 /\ \A j \in FnCalls(last.calls) : i < j
           /\ (v # {} /\ last.env.validateErr) =>
                 /\ last.outcome = "Failed"
                 /\ last.ret.kind = "ValidationError"
                 /\ FnCalls(last.calls) = {}
           /\ (v # {} /\ ~last.env.validateErr) => last.ret.kind # "ValidationError"

\* A dispatch whose parser asked to skip the validation of an argument
\* object that has Validate, and whose handler then ran.
C16_Witness ==
    /\ last.op = "Run"
    /\ Argv[Routing(last.cmd, last.args).node] = "validator"
    /\ last.env.dontValidate
    /\ CallsOf(last.calls, "Validate") = {}
    /\ FnCalls(last.calls) # {}

\* ------------------------------------------------------------------ C18
\* C18: in every dispatch that builds a context, the context's router
\* followed by its residual arguments is the argument list of the call, and
\* no token of the router starts with a dash.
C18_RouterArgs ==
    (last.op = "Run" /\ last.ctx # <<>>) =>
        LET ctx == last.ctx[1]
        IN /\ ctx.router \o ctx.nativeArgs = last.args
           /\ \A i \in 1..Len(ctx.router) : ctx.router[i][1] # "-"

\* A context of a sub-routable command reached through a child, with a
\* residual argument that is not a flag.
C18_Witness ==
    /\ last.op = "Run"
    /\ last.ctx # <<>>
    /\ Len(last.ctx[1].router) >= 1
    /\ Len(last.ctx[1].nativeArgs) >= 1
    /\ last.ctx[1].nativeArgs[1][1] # "-"

\* ------------------------------------------------------------------ C20
\* The registrations RegisterTree makes, in the order of the declaration:
\* each tree under cmd, followed by its own forest under its command.
RECURSIVE Declared(_, _)
Declared(cmd, forest) ==
    IF forest = <<>> THEN <<>>
    ELSE <<<<cmd, Head(forest).command>>>>
         \o Declared(Head(forest).command, Head(forest).forest)
         \o Declared(cmd, Tail(forest))

\* The links after the registrations of pairs are made one by one up to the
\* first that is refused.
RECURSIVE MadeBefore(_, _, _)
MadeBefore(par, chi, pairs) ==
    IF pairs = <<>> THEN [parent |-> par, children |-> chi, failed |-> FALSE]
    ELSE LET p == Head(pairs)[1]
             c == Head(pairs)[2]
         IN IF \/ Name[c] = EmptyStr
               \/ par[c] # Nil
               \/ \E j \in 1..Len(chi[p]) : Name[chi[p][j]] = Name[c]
            THEN [parent |-> par, children |-> chi, failed |-> TRUE]
            ELSE MadeBefore([par EXCEPT ![c] = p],
                            [chi EXCEPT ![p] = Append(@, c)], Tail(pairs))

\* C20: a Register (or RegisterFunc) call that fails leaves every parent
\* link and every children sequence as it was; a RegisterTree call makes its
\* registrations in declared order, fails at the first that is refused and
\* leaves the registrations made before it in the tree.
C20_FailedRegisterStep ==
    /\ (last'.op \in {"Register", "RegisterFunc"} /\ last'.panic # "") =>
          (parent' = parent /\ children' = children)
    /\ last'.op = "RegisterTree" =>
          LET made == MadeBefore(parent, children, Declared(last'.cmd, last'.forest))
          IN /\ parent' = made.parent
             /\ children' = made.children
             /\ last'.panic # "" <=> made.failed

C20_FailedRegister == [][C20_FailedRegisterStep]_vars

\* A RegisterTree call that registered its first tree and then failed on a
\* name its command already had among its children.
C20_Witness ==
    /\ last.op = "RegisterTree"
    /\ last.panic = "repeat register"
    /\ parent[last.forest[1].command] = last.cmd

\* ---------------------------------------------------------------------------
\* C15: Suggestions(path) returns the candidates the cutoff accepts, in
\* ascending order of distance, candidates of equal distance in the order of
\* their discovery, which is breadth-first: the children of the root, then
\* the commands at depth two, and so on; and every command of the tree
\* returns the same list.

\* The commands below the commands of level, level by level.
RECURSIVE BreadthFirst(_)
BreadthFirst(level) ==
    IF Len(level) = 0 THEN <<>>
    ELSE LET RECURSIVE Below(_)
             Below(i) == IF i > Len(level) THEN <<>>
                         ELSE children[level[i]] \o Below(i + 1)
         IN Below(1) \o BreadthFirst(Below(1))

\* The names on the way from the command without parent down to n, that
\* command left out, joined by spaces.
QualifiedPath(n) ==
    LET chain == ChainFromRoot(n)
    IN Join([i \in 1..Len(chain) |-> Name[chain[i]]], Space)

\* The indices of cands that the cutoff accepts for path, in ascending order
\* of (distance, index).
Ranked(path, cands) ==
    LET acc == {i \in 1..Len(cands) : match(path, cands[i]).ok}
        d(i) == match(path, cands[i]).d
        before(i) == {j \in acc : d(j) < d(i) \/ (d(j) = d(i) /\ j < i)}
    IN [k \in 1..Cardinality(acc) |->
            cands[CHOOSE i \in acc : Cardinality(before(i)) = k - 1]]

C15_Suggestions ==
    (last.op = "Suggestions" /\ last.outcome = "returned") =>
        LET root == Root(Heap, last.cmd)
            order == BreadthFirst(<<root>>)
            cands == [i \in 1..Len(order) |-> QualifiedPath(order[i])]
        IN /\ last.ret = Ranked(last.path, cands)
           /\ \A n \in DOMAIN parent :
                 Root(Heap, n) = root => Suggestions(Heap, n, last.path).list = last.ret

\* ---------------------------------------------------------------------------
\* C17: a dispatch, failed or not, the computation of the suggestions
\* included, leaves the parent, the children, the name and the flags of
\* every command as they were, and changes no other state of a command than
\* its usage text.
C17_DispatchStep ==
    last'.op = "Run" =>
        /\ UNCHANGED <<parent, children, Name, Desc, Text, Fn, Argv, CanSubRoute,
                       HTTPMethods>>
        /\ spare' = spare

C17_DispatchFrame == [][C17_DispatchStep]_vars

====
